---- MODULE Spec2Model ----
(***************************************************************************)
(* Model of weather-cloth-rec: the resilient forecast-fetch client         *)
(* (src/clients/nws_client.py), the Weather snapshot                       *)
(* (src/domain/models/weather.py), the comfort scorer                      *)
(* (src/services/scoring/weather_scoring.py), the wind parser              *)
(* (src/utils/parsing.py), the clothing recommender                        *)
(* (src/services/scoring/clothing_scoring.py) and the entry points         *)
(* (app/api/main.py, app/run.py).                                          *)
(*                                                                         *)
(* The specifications of the module:                                       *)
(*   SpecGet        one call of the retrying GET, _get_forecast            *)
(*   SpecFetch      endpoint resolution, get_current_conditions, the       *)
(*                  helpers and the Weather snapshot built from them       *)
(*   SpecScore      score_temperature applied to bounded inputs            *)
(*   SpecWind       wind_multiplier applied to bounded inputs              *)
(*   SpecParse      parse_wind_speed applied to wind texts                 *)
(*   SpecRecommend  recommend_clothing applied to bounded inputs           *)
(*   SpecPipeline   a snapshot scored, its stored score set and clothing   *)
(*                  recommended for it, in any order                       *)
(*   SpecApi        one call of an API endpoint or of the runner           *)
(* Each specification moves its own variables and leaves the others at     *)
(* their initial values.                                                   *)
(***************************************************************************)
EXTENDS Integers, Sequences, FiniteSets, TLC

VARIABLES
    \* ---- _get_forecast (SpecGet) ----
    pc,           \* position in _get_forecast: "loop", "response" or "done"
    attempt,      \* the loop variable of `for attempt in range(1, max_attempts + 1)`
    response,     \* the response of the last HTTP_SESSION.get, NoResponse before it
    log,          \* the GETs issued and the sleeps performed, in order
    outcome,      \* how the call ended: Running, Return(body) or Raise(exception)
    \* ---- fetch layer and Weather snapshot (SpecFetch) ----
    upstream,     \* what the upstream service answers to this operation's GETs
    op,           \* the operation that ran last: "none", "Weather", ...
    weather,      \* the Weather object: None before it is constructed
    ret,          \* what the operation that ran last returned or raised
    \* ---- scorer (SpecScore) ----
    temp_f,       \* the temperature handed to score_temperature
    temp_score,   \* what score_temperature returned for it, None before the call
    \* ---- calls of the scorer, the parser, the recommender and the entry points ----
    args,         \* the arguments of the operation that ran last, None before it
    scored        \* the first score_weather call on the snapshot (its result, the
                  \* stored score it found, whether a later call followed), None before

getVars == <<pc, attempt, response, log, outcome>>
fetchVars == <<upstream, op, weather, ret>>
scoreVars == <<temp_f, temp_score, args, scored>>
vars == <<pc, attempt, response, log, outcome, upstream, op, weather, ret,
          temp_f, temp_score, args, scored>>

(***************************************************************************)
(* Python values.  A value carries its type in field t; the payload field  *)
(* is named after the type, so values of different types compare unequal.  *)
(***************************************************************************)
None == [t |-> "NoneType"]
Str(s) == [t |-> "str", s |-> s]
Num(n) == [t |-> "num", n |-> n]
Dict(d) == [t |-> "dict", d |-> d]
List(l) == [t |-> "list", l |-> l]

\* The empty dict: a function with the empty domain.
EmptyDict == [k \in {} |-> None]

\* dict.get(key, default)
Get(d, key, default) == IF key \in DOMAIN d THEN d[key] ELSE default

\* bool(value): None, "", 0, {} and [] are false.
Truthy(v) ==
    CASE v.t = "NoneType" -> FALSE
      [] v.t = "str" -> Len(v.s) > 0
      [] v.t = "num" -> v.n # 0
      [] v.t = "dict" -> DOMAIN v.d # {}
      [] v.t = "list" -> Len(v.l) > 0

(***************************************************************************)
(* Exceptions.  HTTPError and ConnectionError are RequestExceptions, and   *)
(* so is the JSONDecodeError of requests, which is a ValueError as well;   *)
(* ValueError, RuntimeError, TypeError and AttributeError are not.         *)
(***************************************************************************)
Bases(cls) ==
    CASE cls = "HTTPError" -> {"HTTPError", "RequestException", "Exception"}
      [] cls = "ConnectionError" -> {"ConnectionError", "RequestException", "Exception"}
      [] cls = "JSONDecodeError" ->
            {"JSONDecodeError", "RequestException", "ValueError", "Exception"}
      [] OTHER -> {cls, "Exception"}

IsInstance(exc, cls) == cls \in Bases(exc)

Running == [kind |-> "running"]
Return(v) == [kind |-> "return", value |-> v]
Raise(exc) == [kind |-> "raise", exc |-> exc]

\* The element of a one-element set.  In {e(x) : x \in {v}} the value v is
\* computed once, however often e uses x.
Only(S) == CHOOSE x \in S : TRUE

Raised(r, cls) == r.kind = "raise" /\ IsInstance(r.exc, cls)

(***************************************************************************)
(* Bounds of the model.                                                    *)
(***************************************************************************)
\* Retry-After digit strings are built from the digits 0..MaxDigit.
MaxDigit == 1

\* The temperatures scored lie within MaxDeviation half degrees of the
\* comfort temperature.
MaxDeviation == 100

\* The wind speeds handed to wind_multiplier lie within MaxWind half miles per
\* hour of zero.
MaxWind == 60

\* The snapshots scored lie within MaxDegrees whole degrees of the comfort
\* temperature, with a wind of at most MaxWindSteps steps of 5 mph.
MaxDegrees == 75
MaxWindSteps == 6

\* The whole numbers written in the wind texts handed to parse_wind_speed
\* are at most MaxSpeed.
MaxSpeed == 20

\* The comfort scores handed to recommend_clothing lie within MaxHalfPoints
\* half points of zero.
MaxHalfPoints == 50

(***************************************************************************)
(* str.isdigit() and int() on a header value.  A header value is a tuple   *)
(* of characters; the headers of a response are decoded as latin-1, whose  *)
(* digit characters are the ten decimal digits and the superscripts, of    *)
(* which U+00B2 stands in the model.                                       *)
(***************************************************************************)
DecimalChars == <<"0", "1", "2", "3", "4", "5", "6", "7", "8", "9">>

SuperscriptTwo == "U+00B2"

IsDecimalChar(c) == \E d \in 1..Len(DecimalChars) : DecimalChars[d] = c

DigitValue(c) == (CHOOSE d \in 1..Len(DecimalChars) : DecimalChars[d] = c) - 1

\* str.isdigit(): non-empty and every character is a digit character; a
\* superscript digit is a digit character that is not a decimal one.
isdigit(s) ==
    /\ Len(s) > 0
    /\ \A i \in 1..Len(s) : IsDecimalChar(s[i]) \/ s[i] = SuperscriptTwo

RECURSIVE DecimalValue(_)
DecimalValue(s) ==
    IF Len(s) = 0 THEN 0
    ELSE 10 * DecimalValue(SubSeq(s, 1, Len(s) - 1)) + DigitValue(s[Len(s)])

\* int(s) for s made of digit characters: the decimal value, or ValueError
\* when a character is not a decimal digit.
int(s) ==
    IF \A i \in 1..Len(s) : IsDecimalChar(s[i])
    THEN Return(DecimalValue(s))
    ELSE Raise("ValueError")

(***************************************************************************)
(* _get_forecast: the retrying GET.                                        *)
(***************************************************************************)
\* Mutant: 404 is taken for a transient status.
RETRYABLE_STATUS_CODES_with_404 == {404, 429, 500, 502, 503, 504}

RETRYABLE_STATUS_CODES == {429, 500, 502, 503, 504}

max_attempts == 3

\* The statuses the upstream service answers with: two successes, the
\* transient statuses, and two other error statuses.
StatusCodes == {200, 204, 404, 429, 500, 501, 502, 503, 504}

SuccessCodes == {c \in StatusCodes : 200 <= c /\ c < 300}

DigitStrings ==
    {<<DecimalChars[a + 1]>> : a \in 0..MaxDigit}
        \cup {<<DecimalChars[a + 1], DecimalChars[b + 1]>> : a, b \in 0..MaxDigit}

\* response.headers.get("Retry-After"): None when the header is absent,
\* else its text: empty, delta-seconds, something else, or a superscript.
RetryAfterValues ==
    {None} \cup {Str(s) : s \in DigitStrings \cup {<<>>, <<"s", "o", "o", "n">>,
                                                  <<SuperscriptTwo>>}}

\* A body that is not JSON, and the body SpecGet uses for one that is.
NotJson == [t |-> "bytes"]
SomeJson == Dict(EmptyDict)

NoResponse == [status_code |-> 0, retry_after |-> None, body |-> NotJson]

\* The responses of the upstream service: an error status comes with any
\* Retry-After header, a success with a body that is JSON or is not.
Responses ==
    [status_code : StatusCodes \ SuccessCodes, retry_after : RetryAfterValues,
     body : {NotJson}]
        \cup [status_code : SuccessCodes, retry_after : {None}, body : {SomeJson, NotJson}]

\* The events of the log: a GET with the status it was answered with (0 when
\* the request itself failed), and a sleep with its seconds.
GET(status) == [ev |-> "GET", n |-> status]
Sleep(secs) == [ev |-> "sleep", n |-> secs]

\* response.raise_for_status() raises for 4xx and 5xx.
IsErrorStatus(status) == 400 <= status /\ status < 600

\* Mutant: the parse failure of requests is let through as it is.
json_unwrapped(r) == IF r.body.t = "dict" THEN Return(r.body) ELSE Raise("JSONDecodeError")

\* response.json(), with the parse failure re-raised as a plain ValueError.
json(r) == IF r.body.t = "dict" THEN Return(r.body) ELSE Raise("ValueError")

\* Lines 89-95: the seconds to sleep after a retryable response on `attempt`.
sleep_seconds(retry_after, k) ==
    IF Truthy(retry_after) /\ isdigit(retry_after.s)
    THEN int(retry_after.s)
    ELSE Return(2 ^ k)

\* Line 85: HTTP_SESSION.get answers with a response, or raises for a
\* network failure or a timeout.
session_get ==
    /\ pc = "loop"
    /\ attempt <= max_attempts
    /\ \/ \E r \in Responses :
            /\ response' = r
            /\ log' = Append(log, GET(r.status_code))
            /\ pc' = "response"
            /\ UNCHANGED outcome
       \/ /\ outcome' = Raise("ConnectionError")
          /\ log' = Append(log, GET(0))
          /\ pc' = "done"
          /\ UNCHANGED response
    /\ UNCHANGED <<attempt, fetchVars, scoreVars>>

\* Lines 88-98: a retryable status sleeps and goes to the next attempt.
retry ==
    /\ pc = "response"
    /\ response.status_code \in RETRYABLE_STATUS_CODES
    /\ LET secs == sleep_seconds(response.retry_after, attempt) IN
        IF secs.kind = "raise"
        THEN /\ outcome' = secs
             /\ pc' = "done"
             /\ UNCHANGED <<attempt, log>>
        ELSE /\ log' = Append(log, Sleep(secs.value))
             /\ attempt' = attempt + 1
             /\ pc' = "loop"
             /\ UNCHANGED outcome
    /\ UNCHANGED <<response, fetchVars, scoreVars>>

\* Line 101: an error status outside the retryable set raises.
raise_for_status ==
    /\ pc = "response"
    /\ response.status_code \notin RETRYABLE_STATUS_CODES
    /\ IsErrorStatus(response.status_code)
    /\ outcome' = Raise("HTTPError")
    /\ pc' = "done"
    /\ UNCHANGED <<attempt, response, log, fetchVars, scoreVars>>

\* Lines 104-107: parse the body of a successful response.
parse_json ==
    /\ pc = "response"
    /\ response.status_code \notin RETRYABLE_STATUS_CODES
    /\ ~IsErrorStatus(response.status_code)
    /\ outcome' = json(response)
    /\ pc' = "done"
    /\ UNCHANGED <<attempt, response, log, fetchVars, scoreVars>>

\* Line 110: the loop ran out of attempts.
exhausted ==
    /\ pc = "loop"
    /\ attempt > max_attempts
    /\ outcome' = Raise("RequestException")
    /\ pc' = "done"
    /\ UNCHANGED <<attempt, response, log, fetchVars, scoreVars>>

FetchIdle ==
    /\ upstream = None
    /\ op = "none"
    /\ weather = None
    /\ ret = Running

ScoreIdle ==
    /\ temp_f = None
    /\ temp_score = None
    /\ args = None
    /\ scored = None

InitGet ==
    /\ pc = "loop"
    /\ attempt = 1
    /\ response = NoResponse
    /\ log = <<>>
    /\ outcome = Running
    /\ FetchIdle
    /\ ScoreIdle

NextGet == session_get \/ retry \/ raise_for_status \/ parse_json \/ exhausted

SpecGet == InitGet /\ [][NextGet]_vars

\* What a finished call of _get_forecast hands to its caller: the parsed body,
\* or one of four exceptions.  The fetch layer below draws the outcome of each
\* of its GETs from this set.
get_forecast_raises == {"HTTPError", "RequestException", "ConnectionError", "ValueError"}

GetForecastOutcome ==
    pc = "done" => \/ outcome.kind = "return" /\ outcome.value.t = "dict"
                   \/ outcome.kind = "raise" /\ outcome.exc \in get_forecast_raises

(***************************************************************************)
(* Claims about the retrying GET, checked under SpecGet.                   *)
(***************************************************************************)
\* The retryable set and the error statuses as the specification states them.
ClaimedRetryable == {429, 500, 502, 503, 504}

Gets(l) == SelectSeq(l, LAMBDA e : e.ev = "GET")

Sleeps(l) == SelectSeq(l, LAMBDA e : e.ev = "sleep")

\* A Retry-After header that is present and numeric: one or more decimal digits.
ClaimedNumeric(h) ==
    /\ h.t = "str"
    /\ Len(h.s) > 0
    /\ \A i \in 1..Len(h.s) : IsDecimalChar(h.s[i])

ClaimedWait(h, k) == IF ClaimedNumeric(h) THEN DecimalValue(h.s) ELSE 2 ^ k

\* C1: one call issues at most 3 GETs, and when all 3 responses had a
\* retryable status the call ends by raising a transport error
\* (RequestException), never by returning a body.
C1_AtMostThreeGetsThenTransportError ==
    /\ Len(Gets(log)) <= 3
    /\ (/\ pc = "done"
        /\ Len(Gets(log)) = 3
        /\ \A i \in 1..3 : Gets(log)[i].n \in ClaimedRetryable)
            => Raised(outcome, "RequestException")

\* C2: after a retryable status on attempt k the next step is a wait of the
\* Retry-After value when that header is present and numeric, and of 2^k
\* seconds otherwise (so 503, 503, 200 without Retry-After waits 2 s, then 4 s).
C2_WaitIsRetryAfterOrBackoff ==
    [][(pc = "response" /\ response.status_code \in ClaimedRetryable)
          => log' = Append(log, Sleep(ClaimedWait(response.retry_after, attempt)))]_vars

\* C3: an error status outside the retryable set raises an HTTP error at
\* once, on whatever attempt it arrives: no wait and no GET follows it.
C3_NonRetryableErrorRaisesAtOnce ==
    [][/\ (/\ pc = "response"
           /\ IsErrorStatus(response.status_code)
           /\ response.status_code \notin ClaimedRetryable)
              => (pc' = "done" /\ outcome' = Raise("HTTPError") /\ log' = log)
       /\ pc = "done" => (pc' = "done" /\ log' = log /\ outcome' = outcome)]_vars

\* A 404 on the third attempt, after two waits, ended the call with HTTPError.
C3_Witness ==
    /\ pc = "done"
    /\ outcome = Raise("HTTPError")
    /\ Len(log) = 5
    /\ log[5] = GET(404)
    /\ Len(Sleeps(log)) = 2

\* C4: a successful status with a body that is not JSON raises ValueError,
\* which is no transport error, at once: no wait and no further GET.
C4_MalformedBodyRaisesValueErrorAtOnce ==
    [][(/\ pc = "response"
        /\ 200 <= response.status_code /\ response.status_code < 300
        /\ response.body = NotJson)
          => /\ pc' = "done"
             /\ Raised(outcome', "ValueError")
             /\ ~Raised(outcome', "RequestException")
             /\ log' = log]_vars

\* A 200 whose body did not parse ended the call with ValueError.
C4_Witness ==
    /\ pc = "done"
    /\ response.status_code = 200
    /\ response.body = NotJson
    /\ outcome = Raise("ValueError")
    /\ log = <<GET(503), Sleep(2), GET(200)>>

(***************************************************************************)
(* Numbers.  A Python float or JSON number x is the integer x * SCALE      *)
(* (fixed point, in units of 1/2000, which keeps every product within      *)
(* 32 bits); the values the model draws are multiples of 0.5, on which the *)
(* arithmetic below is exact.                                              *)
(***************************************************************************)
SCALE == 2 * (10 ^ 3)

F(n) == n * SCALE

abs(x) == IF x < 0 THEN -x ELSE x

\* The product of two fixed-point numbers.
Mul(a, b) == (a * b) \div SCALE

Bool(b) == [t |-> "bool", b |-> b]

(***************************************************************************)
(* Text.  A str other than a header value is a TLA+ string.                *)
(***************************************************************************)
CharAt(s, i) == SubSeq(s, i, i)

StartsWith(s, prefix) ==
    Len(s) >= Len(prefix) /\ SubSeq(s, 1, Len(prefix)) = prefix

\* str.endswith
endswith(s, suffix) ==
    Len(s) >= Len(suffix) /\ SubSeq(s, Len(s) - Len(suffix) + 1, Len(s)) = suffix

\* `sub in s`
Contains(s, sub) ==
    \E i \in 1..(Len(s) - Len(sub) + 1) : SubSeq(s, i, i + Len(sub) - 1) = sub

UpperCase == "ABCDEFGHIJKLMNOPQRSTUVWXYZ"
LowerCase == "abcdefghijklmnopqrstuvwxyz"

\* The lower-case letter of every upper-case letter.
LowerOf ==
    [c \in {CharAt(UpperCase, i) : i \in 1..Len(UpperCase)} |->
        CharAt(LowerCase, CHOOSE i \in 1..Len(UpperCase) : CharAt(UpperCase, i) = c)]

LowerChar(c) == IF c \in DOMAIN LowerOf THEN LowerOf[c] ELSE c

\* str.lower
RECURSIVE lower(_)
lower(s) ==
    IF Len(s) = 0 THEN ""
    ELSE lower(SubSeq(s, 1, Len(s) - 1)) \o LowerChar(CharAt(s, Len(s)))

\* str.strip: the blanks at both ends go.
RECURSIVE strip(_)
strip(s) ==
    IF Len(s) = 0 THEN s
    ELSE IF CharAt(s, 1) = " " THEN strip(SubSeq(s, 2, Len(s)))
    ELSE IF CharAt(s, Len(s)) = " " THEN strip(SubSeq(s, 1, Len(s) - 1))
    ELSE s

\* str.split(sep) for a one-character separator.
RECURSIVE split(_, _)
split(s, sep) ==
    IF ~Contains(s, sep) THEN <<s>>
    ELSE LET i == CHOOSE j \in 1..Len(s) :
                      /\ CharAt(s, j) = sep
                      /\ \A k \in 1..(j - 1) : CharAt(s, k) # sep
         IN <<SubSeq(s, 1, i - 1)>> \o split(SubSeq(s, i + 1, Len(s)), sep)

DecimalDigits == "0123456789"

IsDecimalDigit(c) == \E d \in 1..Len(DecimalDigits) : CharAt(DecimalDigits, d) = c

AllDecimalDigits(s) == \A i \in 1..Len(s) : IsDecimalDigit(CharAt(s, i))

RECURSIVE DigitsValue(_)
DigitsValue(s) ==
    IF Len(s) = 0 THEN 0
    ELSE 10 * DigitsValue(SubSeq(s, 1, Len(s) - 1))
            + (CHOOSE d \in 1..Len(DecimalDigits) :
                   CharAt(DecimalDigits, d) = CharAt(s, Len(s))) - 1

\* An unsigned decimal literal: digits, with at most one point among them.
UnsignedValue(s) ==
    LET literal(parts) ==
    IF Len(parts) = 1 /\ Len(s) > 0 /\ AllDecimalDigits(s)
    THEN Return(F(DigitsValue(s)))
    ELSE IF /\ Len(parts) = 2
            /\ Len(parts[1]) + Len(parts[2]) > 0
            /\ AllDecimalDigits(parts[1])
            /\ AllDecimalDigits(parts[2])
    THEN Return(F(DigitsValue(parts[1]))
                    + (F(DigitsValue(parts[2])) \div (10 ^ Len(parts[2]))))
    ELSE Raise("ValueError")
    IN Only({literal(parts) : parts \in {split(s, ".")}})

\* float(text): blanks around the literal and a sign before it are accepted;
\* text that is no decimal literal raises ValueError.  (Exponents, inf and nan
\* are outside the texts the model draws.)
float_of_text(text) ==
    LET signed(s) == Len(s) > 0 /\ CharAt(s, 1) \in {"-", "+"}
        body(s) == IF signed(s) THEN SubSeq(s, 2, Len(s)) ELSE s
        literal(s, u) ==
            IF u.kind = "raise" THEN u
            ELSE IF signed(s) /\ CharAt(s, 1) = "-" THEN Return(-u.value)
            ELSE u
    IN Only({Only({literal(s, u) : u \in {UnsignedValue(body(s))}}) :
                s \in {strip(text)}})

\* float(value): of a number the number, of a str its literal; of None TypeError.
float(v) ==
    CASE v.t = "num" -> Return(v)
      [] v.t = "str" ->
            LET r == float_of_text(v.s) IN
            IF r.kind = "raise" THEN r ELSE Return(Num(r.value))
      [] OTHER -> Raise("TypeError")

(***************************************************************************)
(* parse_wind_speed (src/utils/parsing.py).                                *)
(***************************************************************************)
\* Mutant: of a range the upper endpoint is returned.
parse_wind_speed_taking_upper(wind_speed_str) ==
    IF ~Truthy(wind_speed_str) THEN Num(0)
    ELSE
    LET s0 == strip(lower(wind_speed_str.s)) IN
    IF s0 = "calm" \/ Len(s0) = 0 THEN Num(0)
    ELSE
    LET s == IF endswith(s0, " mph") THEN strip(SubSeq(s0, 1, Len(s0) - 4)) ELSE s0
        parts == split(s, "-")
        min_speed == float_of_text(strip(parts[1]))
        max_speed == float_of_text(strip(parts[2]))
        single == float_of_text(s)
    IN IF /\ Contains(s, "-")
          /\ Len(parts) = 2
          /\ min_speed.kind = "return"
          /\ max_speed.kind = "return"
       THEN Num(max_speed.value)
       ELSE IF single.kind = "return" THEN Num(single.value)
       ELSE Num(0)

parse_wind_speed(wind_speed_str) ==
    IF ~Truthy(wind_speed_str) THEN Num(0)
    ELSE
    LET s0 == strip(lower(wind_speed_str.s)) IN
    IF s0 = "calm" \/ Len(s0) = 0 THEN Num(0)
    ELSE
    LET s == IF endswith(s0, " mph") THEN strip(SubSeq(s0, 1, Len(s0) - 4)) ELSE s0
        parts == split(s, "-")
        min_speed == float_of_text(strip(parts[1]))
        max_speed == float_of_text(strip(parts[2]))
        single == float_of_text(s)
    IN IF /\ Contains(s, "-")
          /\ Len(parts) = 2
          /\ min_speed.kind = "return"
          /\ max_speed.kind = "return"
       THEN Num((min_speed.value + max_speed.value) \div 2)
       ELSE IF single.kind = "return" THEN Num(single.value)
       ELSE Num(0)

(***************************************************************************)
(* URLs and timestamps.                                                    *)
(***************************************************************************)
NWS_BASE_URL == "https://api.weather.gov/"

\* str(value) inside an f-string.
Format(v) ==
    CASE v.t = "NoneType" -> "None"
      [] v.t = "str" -> v.s
      [] v.t = "num" -> ToString(v.n \div SCALE)

\* urllib.parse.urljoin(base, url) for the base NWS_BASE_URL, whose path is
\* "/": nothing to join gives the base, an absolute URL stays as it is, and
\* a path is put after the base's origin.
urljoin(base, url) ==
    IF ~Truthy(url) THEN base
    ELSE IF Contains(url.s, "://") THEN url.s
    ELSE IF StartsWith(url.s, "/") THEN SubSeq(base, 1, Len(base) - 1) \o url.s
    ELSE base \o url.s

\* The ISO-8601 texts datetime.fromisoformat accepts among those the model
\* draws, with what _parse_time makes of each.
IsoTimes ==
    "2025-10-27T12:00:00-04:00" :> "12:00 PM UTC-04:00 on October 27, 2025 "

_parse_time(time_string) ==
    IF time_string.t # "str" THEN Raise("TypeError")
    ELSE IF time_string.s \in DOMAIN IsoTimes THEN Return(Str(IsoTimes[time_string.s]))
    ELSE Raise("ValueError")

(***************************************************************************)
(* The upstream service.  One call of _get_forecast returns the parsed     *)
(* body or raises one of get_forecast_raises (GetForecastOutcome, an       *)
(* invariant of SpecGet).                                                  *)
(***************************************************************************)
GetForecastResults(payloads) ==
    {Return(Dict(b)) : b \in payloads} \cup {Raise(e) : e \in get_forecast_raises}

Merge(d1, d2) ==
    [k \in DOMAIN d1 \cup DOMAIN d2 |-> IF k \in DOMAIN d1 THEN d1[k] ELSE d2[k]]

\* The dicts with the key absent or bound to one of the values.
Optional(key, values) == {EmptyDict} \cup {[k \in {key} |-> v] : v \in values}

HourlyUrl == "https://api.weather.gov/gridpoints/BOX/71,90/forecast/hourly"

GridValues ==
    {Dict(EmptyDict),
     Dict([wfo |-> Str("OKX"), x |-> Num(F(33)), y |-> Num(F(37))]),
     Dict([x |-> Num(F(33)), y |-> Num(F(37))])}

\* /points payloads as endpoint resolution reads them.
PointPayloads ==
    {EmptyDict} \cup
    {[properties |-> Dict(Merge(a, b))] :
        a \in Optional("forecastHourly", {Str(""), Str(HourlyUrl)}),
        b \in Optional("gridpoints", GridValues)}

\* /points payloads as get_location reads them.
LocationPayloads ==
    {EmptyDict} \cup
    {[properties |-> Dict(a)] :
        a \in Optional("relativeLocation",
                       {Dict([properties |->
                                 Dict([city |-> Str("Boston"), state |-> Str("MA")])])})}

Periods ==
    {Merge(a, Merge(b, Merge(c, d))) :
        a \in Optional("temperature", {Num(F(70))}),
        b \in Optional("windSpeed", {Str("5 mph"), Str("10 to 15 mph")}),
        c \in Optional("shortForecast", {Str("Sunny")}),
        d \in Optional("startTime", {Str("2025-10-27T12:00:00-04:00"), Str("tomorrow")})}

\* A later period, which differs from every first period drawn.
LaterPeriod ==
    [temperature |-> Num(F(99)), windSpeed |-> Str("40 mph"),
     shortForecast |-> Str("Heavy Snow"), startTime |-> Str("2025-10-27T12:00:00-04:00")]

PeriodLists ==
    {None, List(<<>>), List(<<Str("n/a")>>)}
        \cup {List(<<Dict(q)>>) : q \in Periods}
        \cup {List(<<Dict(q), Dict(LaterPeriod)>>) : q \in Periods}

\* Hourly-forecast payloads.
ForecastPayloads ==
    {EmptyDict} \cup {[properties |-> Dict(a)] : a \in Optional("periods", PeriodLists)}

PointAnswers == GetForecastResults(PointPayloads)
ForecastAnswers == GetForecastResults(ForecastPayloads)
LocationAnswers == GetForecastResults(LocationPayloads)

NoAnswer == None

Upstream(point, forecast, location) ==
    [point |-> point, forecast |-> forecast, location |-> location]

(***************************************************************************)
(* The fetch layer (src/clients/nws_client.py).  Each function is given    *)
(* the answers of the GETs it issues and returns Return(value) or          *)
(* Raise(exception).                                                       *)
(***************************************************************************)
\* get_point: the body of /points/{latitude},{longitude}, or what the GET raised.
get_point(point_answer) == point_answer

\* Line 156: the fallback path built from the grid office and cell.
gridpoints_path(gridpoints) ==
    "/gridpoints/" \o Format(Get(gridpoints.d, "wfo", None))
        \o "/" \o Format(Get(gridpoints.d, "x", None))
        \o "," \o Format(Get(gridpoints.d, "y", None))
        \o "/forecast/hourly"

get_hourly_forecast(point_answer) ==
    LET point_payload == get_point(point_answer) IN
    IF point_payload.kind = "raise" THEN point_payload
    ELSE
    LET properties == Get(point_payload.value.d, "properties", Dict(EmptyDict))
        direct == Get(properties.d, "forecastHourly", None)
        gridpoints == Get(properties.d, "gridpoints", None)
        forecast_url ==
            IF Truthy(direct) THEN direct
            ELSE IF Truthy(gridpoints) THEN Str(gridpoints_path(gridpoints))
            ELSE direct
    IN Return(Str(urljoin(NWS_BASE_URL, forecast_url)))

get_location(point_answer) ==
    LET point_payload == get_point(point_answer) IN
    IF point_payload.kind = "raise" THEN point_payload
    ELSE
    LET properties == Get(point_payload.value.d, "properties", Dict(EmptyDict))
        relative == Get(properties.d, "relativeLocation", Dict(EmptyDict))
        location == Get(relative.d, "properties", Dict(EmptyDict))
        city == Get(location.d, "city", None)
        state == Get(location.d, "state", None)
    IN Return(Str(Format(city) \o ", " \o Format(state)))

\* The try block of fetch_short_forecast_once, lines 181-191.
fetch_short_forecast_once_body(up) ==
    LET hourly_url == get_hourly_forecast(up.point) IN
    IF hourly_url.kind = "raise" THEN hourly_url
    ELSE IF ~Truthy(hourly_url.value) \/ ~Contains(hourly_url.value.s, "/forecast/hourly")
    THEN Return(None)
    ELSE
    LET hourly_forecast_payload == up.forecast IN
    IF hourly_forecast_payload.kind = "raise" THEN hourly_forecast_payload
    ELSE
    LET properties == Get(hourly_forecast_payload.value.d, "properties", Dict(EmptyDict))
        periods == Get(properties.d, "periods", List(<<>>))
    IN IF ~Truthy(periods) \/ periods.t # "list" THEN Return(None)
       ELSE IF periods.l[1].t # "dict" THEN Return(None)
       ELSE Return(Get(periods.l[1].d, "shortForecast", None))

\* Lines 192-197: every exception of the try block is answered with None.
fetch_short_forecast_once(up) ==
    LET r == fetch_short_forecast_once_body(up) IN
    IF Raised(r, "HTTPError") THEN Return(None)
    ELSE IF Raised(r, "Exception") THEN Return(None)
    ELSE r

\* Line 259: the periods of the payload, [] when there are none.
periods_of(hourly_forecast_payload) ==
    LET properties == Get(hourly_forecast_payload.d, "properties", Dict(EmptyDict))
        periods == Get(properties.d, "periods", List(<<>>))
    IN IF Truthy(periods) THEN periods ELSE List(<<>>)

\* Mutant: the last period is taken for the current one.
current_period_of_last(periods) == periods.l[Len(periods.l)]

\* Line 262: the period taken as the current one.
current_period_of(periods) == periods.l[1]

get_current_conditions(up) ==
    LET hourly_forecast_url == get_hourly_forecast(up.point) IN
    IF hourly_forecast_url.kind = "raise" THEN hourly_forecast_url
    ELSE
    LET hourly_forecast_payload == up.forecast IN
    IF hourly_forecast_payload.kind = "raise" THEN hourly_forecast_payload
    ELSE
    LET periods == periods_of(hourly_forecast_payload.value) IN
    IF ~Truthy(periods) THEN Raise("RuntimeError")
    ELSE
    LET current_period == current_period_of(periods) IN
    IF current_period.t # "dict" THEN Raise("AttributeError")
    ELSE
    LET temperature == Get(current_period.d, "temperature", None)
        wind_speed == Get(current_period.d, "windSpeed", None)
        short_forecast == Get(current_period.d, "shortForecast", None)
        period_start == _parse_time(Get(current_period.d, "startTime", None))
    IN
    IF period_start.kind = "raise" THEN period_start
    ELSE
    LET location == get_location(up.location) IN
    IF location.kind = "raise" THEN location
    ELSE
    LET wind_mph == IF Truthy(wind_speed) THEN parse_wind_speed(wind_speed) ELSE Num(0)
    IN Return(Dict([temp_f |-> temperature,
                    wind_mph |-> wind_mph,
                    short_forecast |-> short_forecast,
                    period_start |-> period_start.value,
                    source |-> Str("weather.gov"),
                    location |-> location.value]))

(***************************************************************************)
(* The Weather snapshot (src/domain/models/weather.py).                    *)
(***************************************************************************)
\* Mutant: only the errors of requests are caught.
Weather_catching_request_errors(conditions) ==
    IF conditions.kind = "return"
    THEN Return([t |-> "Weather", weather_data |-> conditions.value, score |-> Num(0)])
    ELSE IF Raised(conditions, "RequestException")
    THEN Return([t |-> "Weather", weather_data |-> Dict(EmptyDict), score |-> Num(0)])
    ELSE conditions

\* Weather.__init__, given what get_current_conditions returned or raised:
\* the object built, or the exception that leaves the constructor.
Weather(conditions) ==
    IF conditions.kind = "return"
    THEN Return([t |-> "Weather", weather_data |-> conditions.value, score |-> Num(0)])
    ELSE IF Raised(conditions, "Exception")
    THEN Return([t |-> "Weather", weather_data |-> Dict(EmptyDict), score |-> Num(0)])
    ELSE conditions

is_ready(self) == Return(Bool(Truthy(self.weather_data)))

get_temperature(self) == float(Get(self.weather_data.d, "temp_f", Num(0)))

get_wind_speed(self) == float(Get(self.weather_data.d, "wind_mph", Num(0)))

get_short_forecast(self) ==
    LET text == Get(self.weather_data.d, "short_forecast", Str("No forecast available"))
    IN IF text.t = "str" THEN Return(Str(lower(text.s))) ELSE Raise("AttributeError")

get_period_start(self) == Return(Get(self.weather_data.d, "period_start", Str("Unknown")))

(***************************************************************************)
(* SpecFetch: one operation of the fetch layer is called on some answers   *)
(* of the upstream service; on a Weather object the accessors follow.      *)
(***************************************************************************)
call_get_hourly_forecast ==
    /\ op = "none"
    /\ \E p \in PointAnswers :
        /\ upstream' = Upstream(p, NoAnswer, NoAnswer)
        /\ ret' = get_hourly_forecast(p)
    /\ op' = "get_hourly_forecast"
    /\ UNCHANGED <<weather, getVars, scoreVars>>

call_get_location ==
    /\ op = "none"
    /\ \E l \in LocationAnswers :
        /\ upstream' = Upstream(NoAnswer, NoAnswer, l)
        /\ ret' = get_location(l)
    /\ op' = "get_location"
    /\ UNCHANGED <<weather, getVars, scoreVars>>

call_fetch_short_forecast_once ==
    /\ op = "none"
    /\ \E p \in PointAnswers, f \in ForecastAnswers :
        /\ upstream' = Upstream(p, f, NoAnswer)
        /\ ret' = fetch_short_forecast_once(upstream')
    /\ op' = "fetch_short_forecast_once"
    /\ UNCHANGED <<weather, getVars, scoreVars>>

call_get_current_conditions ==
    /\ op = "none"
    /\ \E p \in PointAnswers, f \in ForecastAnswers, l \in LocationAnswers :
        /\ upstream' = Upstream(p, f, l)
        /\ ret' = get_current_conditions(upstream')
    /\ op' = "get_current_conditions"
    /\ UNCHANGED <<weather, getVars, scoreVars>>

construct_Weather ==
    /\ op = "none"
    /\ \E p \in PointAnswers, f \in ForecastAnswers, l \in LocationAnswers :
        /\ upstream' = Upstream(p, f, l)
        /\ LET made == Weather(get_current_conditions(upstream')) IN
            IF made.kind = "return"
            THEN weather' = made.value /\ ret' = Return(None)
            ELSE weather' = None /\ ret' = made
    /\ op' = "Weather"
    /\ UNCHANGED <<getVars, scoreVars>>

Accessors ==
    {"is_ready", "get_temperature", "get_wind_speed", "get_short_forecast",
     "get_period_start"}

call_is_ready ==
    /\ weather # None
    /\ ret' = is_ready(weather)
    /\ op' = "is_ready"
    /\ UNCHANGED <<upstream, weather, getVars, scoreVars>>

call_get_temperature ==
    /\ weather # None
    /\ ret' = get_temperature(weather)
    /\ op' = "get_temperature"
    /\ UNCHANGED <<upstream, weather, getVars, scoreVars>>

call_get_wind_speed ==
    /\ weather # None
    /\ ret' = get_wind_speed(weather)
    /\ op' = "get_wind_speed"
    /\ UNCHANGED <<upstream, weather, getVars, scoreVars>>

call_get_short_forecast ==
    /\ weather # None
    /\ ret' = get_short_forecast(weather)
    /\ op' = "get_short_forecast"
    /\ UNCHANGED <<upstream, weather, getVars, scoreVars>>

call_get_period_start ==
    /\ weather # None
    /\ ret' = get_period_start(weather)
    /\ op' = "get_period_start"
    /\ UNCHANGED <<upstream, weather, getVars, scoreVars>>

GetIdle ==
    /\ pc = "idle"
    /\ attempt = 0
    /\ response = NoResponse
    /\ log = <<>>
    /\ outcome = Running

InitFetch == GetIdle /\ FetchIdle /\ ScoreIdle

NextFetch ==
    \/ call_get_hourly_forecast
    \/ call_get_location
    \/ call_fetch_short_forecast_once
    \/ call_get_current_conditions
    \/ construct_Weather
    \/ call_is_ready
    \/ call_get_temperature
    \/ call_get_wind_speed
    \/ call_get_short_forecast
    \/ call_get_period_start

SpecFetch == InitFetch /\ [][NextFetch]_vars

(***************************************************************************)
(* Claims about the fetch layer and the snapshot, checked under SpecFetch. *)
(***************************************************************************)
\* The periods array of the forecast payload the upstream service answered
\* with: None when the payload has none.
AnsweredPeriods ==
    LET properties == Get(upstream.forecast.value.d, "properties", Dict(EmptyDict))
    IN Get(properties.d, "periods", None)

\* The forecast GET was issued and answered with a payload.
ForecastAnswered ==
    /\ get_hourly_forecast(upstream.point).kind = "return"
    /\ upstream.forecast.kind = "return"

\* C5: get_current_conditions reports the first period of the array; on an
\* empty or missing array it raises the no-data error, RuntimeError, which is
\* neither a transport error nor a malformed-response error, and returns nothing.
C5_EmptyPeriodsRaiseNoData ==
    (op = "get_current_conditions" /\ ForecastAnswered) =>
        /\ AnsweredPeriods \in {None, List(<<>>)} =>
              /\ ret = Raise("RuntimeError")
              /\ ~Raised(ret, "RequestException")
              /\ ~Raised(ret, "ValueError")
        /\ ret.kind = "return" =>
              /\ AnsweredPeriods.t = "list"
              /\ Len(AnsweredPeriods.l) > 0
              /\ ret.value.d.temp_f = Get(AnsweredPeriods.l[1].d, "temperature", None)
              /\ ret.value.d.short_forecast
                    = Get(AnsweredPeriods.l[1].d, "shortForecast", None)

\* An empty periods array was answered with RuntimeError.
C5_Witness ==
    /\ op = "get_current_conditions"
    /\ ForecastAnswered
    /\ AnsweredPeriods = List(<<>>)
    /\ ret = Raise("RuntimeError")

\* The first of two periods was reported.
C5_WitnessFirst ==
    /\ op = "get_current_conditions"
    /\ ret.kind = "return"
    /\ Len(AnsweredPeriods.l) = 2
    /\ ret.value.d.temp_f = Num(F(70))

\* C6: for every point-metadata payload, endpoint resolution returns the
\* direct hourly-forecast URL when the payload gives one, and otherwise the
\* URL built from the office identifier and the grid x,y; either way an
\* hourly-forecast URL.
C6_ResolvedUrlIsHourlyForecast ==
    (op = "get_hourly_forecast" /\ upstream.point.kind = "return") =>
        LET properties == Get(upstream.point.value.d, "properties", Dict(EmptyDict))
            direct == Get(properties.d, "forecastHourly", None)
            grid == Get(properties.d, "gridpoints", None)
        IN /\ ret.kind = "return"
           /\ IF direct.t = "str" /\ direct.s # ""
              THEN ret.value = direct
              ELSE /\ grid.t = "dict"
                   /\ {"wfo", "x", "y"} \subseteq DOMAIN grid.d
                   /\ ret.value = Str("https://api.weather.gov/gridpoints/"
                                        \o grid.d.wfo.s \o "/"
                                        \o ToString(grid.d.x.n \div SCALE) \o ","
                                        \o ToString(grid.d.y.n \div SCALE)
                                        \o "/forecast/hourly")
           /\ endswith(ret.value.s, "/forecast/hourly")

Constructed == op \in {"Weather"} \cup Accessors

\* C7: constructing a Weather never raises; a failed fetch leaves the backing
\* data empty, a successful one fills it, and is_ready() is true exactly when
\* the fetch succeeded.
C7_ConstructionNeverRaises ==
    Constructed =>
        LET fetched == get_current_conditions(upstream) IN
        /\ weather # None
        /\ op = "Weather" => ret = Return(None)
        /\ fetched.kind = "raise" => weather.weather_data = Dict(EmptyDict)
        /\ fetched.kind = "return" => weather.weather_data = fetched.value
        /\ op = "is_ready" => ret = Return(Bool(fetched.kind = "return"))

\* The fetch failed with the no-data error and the snapshot is not ready.
C7_Witness ==
    /\ op = "is_ready"
    /\ get_current_conditions(upstream) = Raise("RuntimeError")
    /\ weather.weather_data = Dict(EmptyDict)
    /\ ret = Return(Bool(FALSE))

\* The datum behind an accessor is missing from the snapshot.
Missing(key) ==
    \/ key \notin DOMAIN weather.weather_data.d
    \/ weather.weather_data.d[key] = None

\* C8: on every snapshot construction can produce, every accessor returns a
\* value, and the default (0.0, 0.0, the sentinel text, "Unknown") when its
\* datum is missing.
C8_AccessorsReturnDefaults ==
    (weather # None /\ op \in Accessors) =>
        /\ ret.kind = "return"
        /\ (op = "get_temperature" /\ Missing("temp_f")) => ret.value = Num(0)
        /\ (op = "get_wind_speed" /\ Missing("wind_mph")) => ret.value = Num(0)
        /\ (op = "get_short_forecast" /\ Missing("short_forecast"))
              => ret.value = Str("no forecast available")
        /\ (op = "get_period_start" /\ Missing("period_start")) => ret.value = Str("Unknown")

\* C9: fetch_short_forecast_once and get_location never raise: on any fetch
\* error they return the absent-value sentinel.
C9_HelpersSwallowFetchErrors ==
    /\ op = "fetch_short_forecast_once" =>
          /\ ret.kind = "return"
          /\ (upstream.point.kind = "raise" \/ upstream.forecast.kind = "raise")
                => ret.value = None
    /\ op = "get_location" =>
          /\ ret.kind = "return"
          /\ upstream.location.kind = "raise" => ret.value = None

(***************************************************************************)
(* The comfort scorer (src/services/scoring/weather_scoring.py).           *)
(***************************************************************************)
COMFORT_TEMPERATURE == 70

\* 0.5 and 10.0
Half == SCALE \div 2
Ten == F(10)

\* Mutant: the signed difference is taken for the distance.
score_temperature_signed(temperature) ==
    LET t == float(temperature) IN
    IF t.kind = "raise" THEN t
    ELSE LET diff == t.value.n - F(COMFORT_TEMPERATURE)
             points == Ten - Mul(Half, diff)
         IN Return(Num(points))

score_temperature(temperature) ==
    LET t == float(temperature) IN
    IF t.kind = "raise" THEN t
    ELSE LET diff == abs(t.value.n - F(COMFORT_TEMPERATURE))
             points == Ten - Mul(Half, diff)
         IN Return(Num(points))

(***************************************************************************)
(* SpecScore: score_temperature is applied to a temperature within         *)
(* MaxDeviation half degrees of the comfort temperature.                   *)
(***************************************************************************)
TemperatureInputs ==
    {Num(F(COMFORT_TEMPERATURE) + d * Half) : d \in (-MaxDeviation)..MaxDeviation}

call_score_temperature ==
    /\ temp_score = None
    /\ temp_score' = score_temperature(temp_f)
    /\ UNCHANGED <<temp_f, args, scored, getVars, fetchVars>>

InitScore ==
    /\ GetIdle
    /\ FetchIdle
    /\ temp_f \in TemperatureInputs
    /\ temp_score = None
    /\ args = None
    /\ scored = None

NextScore == call_score_temperature

SpecScore == InitScore /\ [][NextScore]_vars

max(a, b) == IF a >= b THEN a ELSE b

\* Mutant: the multiplier is not held at the floor.
wind_multiplier_unfloored(wind_speed) ==
    LET f == float(wind_speed) IN
    IF f.kind = "raise" THEN f
    ELSE LET start == F(5)
             step == SCALE \div 50
             w == max(0, f.value.n - start)
             m == F(1) - Mul(step, w)
         IN Return(Num(m))

\* wind_multiplier(wind_speed, start=5.0, step=0.02, floor=0.6), called with
\* the defaults, as every caller does.
wind_multiplier(wind_speed) ==
    LET f == float(wind_speed) IN
    IF f.kind = "raise" THEN f
    ELSE LET start == F(5)
             step == SCALE \div 50
             floor == (6 * SCALE) \div 10
             w == max(0, f.value.n - start)
             m == F(1) - Mul(step, w)
         IN Return(Num(max(floor, m)))

FORECAST_SCORES ==
    ("sunny" :> 10) @@ ("mostly sunny" :> 8) @@ ("partly cloudy" :> 6)
        @@ ("mostly cloudy" :> 3) @@ ("cloudy" :> 1) @@ ("fog" :> -2)
        @@ ("rain" :> -5) @@ ("sleet" :> -6) @@ ("snow" :> -7)
        @@ ("thunderstorms" :> -8) @@ ("heavy rain" :> -9) @@ ("heavy snow" :> -10)

\* Lines 42-47 of score_weather: the local temperature_score, or the exception
\* an accessor or a scoring function raised on the way to it.
temperature_score(snapshot) ==
    Only({
        IF temp.kind = "raise" THEN temp
        ELSE Only({
            IF temperature.kind = "raise" THEN temperature
            ELSE IF wind_speed.kind = "raise" THEN wind_speed
            ELSE IF short_forecast.kind = "raise" THEN short_forecast
            ELSE Only({
                IF wind_multiplier_score.kind = "raise" THEN wind_multiplier_score
                ELSE Return(Num(Mul(temperature.value.n, wind_multiplier_score.value.n))) :
                wind_multiplier_score \in {wind_multiplier(wind_speed.value)}}) :
            temperature \in {score_temperature(temp.value)},
            wind_speed \in {get_wind_speed(snapshot)},
            short_forecast \in {get_short_forecast(snapshot)}}) :
        temp \in {get_temperature(snapshot)}})

\* Line 48 of score_weather: the local forecast_score.
forecast_score(snapshot) ==
    LET short_forecast == get_short_forecast(snapshot) IN
    IF short_forecast.kind = "raise" THEN short_forecast
    ELSE Return(Num(F(Get(FORECAST_SCORES, short_forecast.value.s, 0))))

\* Mutant: the score stored on the snapshot is added to the result.
score_weather_adding_stored_score(snapshot) ==
    Only({
        IF term.kind = "raise" THEN term
        ELSE IF table.kind = "raise" THEN table
        ELSE Return(Num(term.value.n + table.value.n + snapshot.score.n)) :
        term \in {temperature_score(snapshot)}, table \in {forecast_score(snapshot)}})

score_weather(snapshot) ==
    Only({
        IF term.kind = "raise" THEN term
        ELSE IF table.kind = "raise" THEN table
        ELSE Return(Num(term.value.n + table.value.n)) :
        term \in {temperature_score(snapshot)}, table \in {forecast_score(snapshot)}})

\* Weather.set_score
set_score(self, score) == [self EXCEPT !.score = score]

(***************************************************************************)
(* SpecWind: wind_multiplier is applied to a wind speed within MaxWind     *)
(* half miles per hour of zero.                                            *)
(***************************************************************************)
WindInputs == {Num(k * Half) : k \in (-MaxWind)..MaxWind}

call_wind_multiplier ==
    /\ op = "none"
    /\ op' = "wind_multiplier"
    /\ ret' = wind_multiplier(args.wind_speed)
    /\ UNCHANGED <<upstream, weather, args, scored, temp_f, temp_score, getVars>>

InitWind ==
    /\ GetIdle
    /\ FetchIdle
    /\ temp_f = None
    /\ temp_score = None
    /\ args \in [wind_speed : WindInputs]
    /\ scored = None

NextWind == call_wind_multiplier

SpecWind == InitWind /\ [][NextWind]_vars

\* C12: with the default parameters wind_multiplier(w) is 1.0 for w <= 5,
\* 1.0 - 0.02 * (w - 5) and strictly decreasing for 5 < w < 25, and 0.6 for
\* w >= 25; it never increases with w and always lies within [0.6, 1.0].
C12_WindMultiplierIsFlooredRamp ==
    op = "wind_multiplier" =>
        /\ ret.kind = "return"
        /\ LET w == args.wind_speed.n
               m == ret.value.n
           IN /\ w <= 5 * SCALE => m = SCALE
              /\ (5 * SCALE < w /\ w < 25 * SCALE) => m = SCALE - (w - 5 * SCALE) \div 50
              /\ w >= 25 * SCALE => m = (6 * SCALE) \div 10
              /\ (6 * SCALE) \div 10 <= m /\ m <= SCALE
              /\ \A other \in WindInputs :
                    other.n > w =>
                        /\ wind_multiplier(other).value.n <= m
                        /\ (5 * SCALE < w /\ other.n < 25 * SCALE)
                              => wind_multiplier(other).value.n < m

\* 15 mph gave 0.80, and 30 mph the floor.
C12_Witness ==
    /\ op = "wind_multiplier"
    /\ args.wind_speed = Num(15 * SCALE)
    /\ ret = Return(Num((8 * SCALE) \div 10))

(***************************************************************************)
(* The clothing recommender (src/services/scoring/clothing_scoring.py)     *)
(* and its catalog (src/config/common.py).  A catalog item is a record;    *)
(* an item without a flag has no such field.                               *)
(***************************************************************************)
CLOTHING_SCORES ==
    << [name |-> "tee", score |-> 1, category |-> "base"],
       [name |-> "long_sleeve", score |-> 2, category |-> "base"],
       [name |-> "thermal_base", score |-> 3, category |-> "base"],
       [name |-> "sweater", score |-> 3, category |-> "mid"],
       [name |-> "fleece", score |-> 3, category |-> "mid"],
       [name |-> "heavy_sweater", score |-> 4, category |-> "mid"],
       [name |-> "light_jacket", score |-> 3, category |-> "outer", windproof |-> TRUE],
       [name |-> "insulated_jacket", score |-> 5, category |-> "outer", insulated |-> TRUE],
       [name |-> "down_coat", score |-> 6, category |-> "outer", insulated |-> TRUE],
       [name |-> "rain_shell", score |-> 2, category |-> "shell", rainproof |-> TRUE,
        windproof |-> TRUE],
       [name |-> "softshell", score |-> 3, category |-> "shell", windproof |-> TRUE],
       [name |-> "scarf", score |-> 1, category |-> "accessory"],
       [name |-> "hat", score |-> 1, category |-> "accessory"],
       [name |-> "gloves", score |-> 1, category |-> "accessory"],
       [name |-> "thermal_leggings", score |-> 2, category |-> "bottom"] >>

AUTO_ACCESSORIES ==
    << [when_temp_below |-> 32, add |-> <<"hat", "gloves">>],
       [when_temp_below |-> 20, add |-> <<"scarf">>],
       [when_temp_below |-> 15, add |-> <<"thermal_leggings">>] >>

\* Mutant: the limit lets the whole assembled list through.
RECOMMENDATION_LIMITS_eight_layers == [max_layers |-> 8, max_accessories |-> 3]
RECOMMENDATION_LIMITS == [max_layers |-> 5, max_accessories |-> 3]

\* [item for item in CLOTHING_SCORES if item["category"] == category]
of_category(category) ==
    SelectSeq(CLOTHING_SCORES, LAMBDA item : item.category = category)

\* next((item for item in items if <test>), None), the test given as the set
\* of the positions that pass it.
first_of(items, passing) ==
    IF passing = {} THEN None
    ELSE items[CHOOSE i \in passing : \A j \in passing : i <= j]

\* `item in items`
is_in(item, items) == \E i \in 1..Len(items) : items[i] = item

\* Mutant: a score on a threshold falls into the next tier.
warmth_needed_strict(comfort_score) ==
    IF comfort_score.n > F(8) THEN 1
    ELSE IF comfort_score.n > F(5) THEN 2
    ELSE IF comfort_score.n > F(0) THEN 3
    ELSE IF comfort_score.n > F(-5) THEN 4
    ELSE 5

\* Lines 26-41: the warmth tier.
warmth_needed(comfort_score) ==
    IF comfort_score.n >= F(8) THEN 1
    ELSE IF comfort_score.n >= F(5) THEN 2
    ELSE IF comfort_score.n >= F(0) THEN 3
    ELSE IF comfort_score.n >= F(-5) THEN 4
    ELSE 5

\* Mutant: the first outer layer is taken, not the last.
layers_lightest_outer(comfort_score) ==
    LET tier == warmth_needed(comfort_score)
        base_layers == of_category("base")
        mid_layers == of_category("mid")
        outer_layers == of_category("outer")
        shells == of_category("shell")
        rain_shell ==
            first_of(shells, {i \in 1..Len(shells) :
                                 "rainproof" \in DOMAIN shells[i] /\ shells[i].rainproof})
    IN (IF tier >= 1
        THEN <<IF Len(base_layers) > 0 THEN base_layers[1] ELSE None>> ELSE <<>>)
       \o (IF tier >= 3
           THEN <<IF Len(mid_layers) > 0 THEN mid_layers[1] ELSE None>> ELSE <<>>)
       \o (IF tier >= 4
           THEN <<IF Len(outer_layers) > 0 THEN outer_layers[1] ELSE None>>
           ELSE <<>>)
       \o (IF comfort_score.n < 0 /\ rain_shell # None THEN <<rain_shell>> ELSE <<>>)

\* Lines 43-64: the layers, in the order they are appended.
layers(comfort_score) ==
    LET tier == warmth_needed(comfort_score)
        base_layers == of_category("base")
        mid_layers == of_category("mid")
        outer_layers == of_category("outer")
        shells == of_category("shell")
        rain_shell ==
            first_of(shells, {i \in 1..Len(shells) :
                                 "rainproof" \in DOMAIN shells[i] /\ shells[i].rainproof})
    IN (IF tier >= 1
        THEN <<IF Len(base_layers) > 0 THEN base_layers[1] ELSE None>> ELSE <<>>)
       \o (IF tier >= 3
           THEN <<IF Len(mid_layers) > 0 THEN mid_layers[1] ELSE None>> ELSE <<>>)
       \o (IF tier >= 4
           THEN <<IF Len(outer_layers) > 0 THEN outer_layers[Len(outer_layers)] ELSE None>>
           ELSE <<>>)
       \o (IF comfort_score.n < 0 /\ rain_shell # None THEN <<rain_shell>> ELSE <<>>)

\* Mutant: only the first rule that applies adds its accessories.
accessory_names_first_rule_only(temperature) ==
    LET applying == {r \in 1..Len(AUTO_ACCESSORIES) :
                        temperature.n < F(AUTO_ACCESSORIES[r].when_temp_below)}
    IN IF applying = {} THEN <<>>
       ELSE AUTO_ACCESSORIES[CHOOSE r \in applying : \A q \in applying : r <= q].add

\* Lines 67-69: the accessory names the two loops visit, in order.
RECURSIVE names_from(_, _)
names_from(r, temperature) ==
    IF r > Len(AUTO_ACCESSORIES) THEN <<>>
    ELSE (IF temperature.n < F(AUTO_ACCESSORIES[r].when_temp_below)
          THEN AUTO_ACCESSORIES[r].add ELSE <<>>)
            \o names_from(r + 1, temperature)

accessory_names(temperature) == names_from(1, temperature)

\* Lines 70-72: each name is looked up in the catalog and appended unless it
\* is unknown or already recommended.
RECURSIVE append_accessories(_, _)
append_accessories(recommendations, names) ==
    IF Len(names) = 0 THEN recommendations
    ELSE LET accessory ==
                 first_of(CLOTHING_SCORES,
                          {i \in 1..Len(CLOTHING_SCORES) :
                              CLOTHING_SCORES[i].name = names[1]})
             appended ==
                 IF accessory # None /\ ~is_in(accessory, recommendations)
                 THEN Append(recommendations, accessory)
                 ELSE recommendations
         IN append_accessories(appended, Tail(names))

\* Lines 24-72: the list `recommendations` when the accessory loop is over.
assembled(comfort_score, temperature) ==
    append_accessories(layers(comfort_score), accessory_names(temperature))

\* Mutant: the list is returned as assembled.
limited_not_at_all(recommendations) ==
    SelectSeq(recommendations, LAMBDA r : r # None)

\* Lines 74-79: the None entries go, then the list is cut to max_layers.
limited(recommendations) ==
    LET kept == SelectSeq(recommendations, LAMBDA r : r # None)
        max_layers == Get(RECOMMENDATION_LIMITS, "max_layers", 5)
    IN SubSeq(kept, 1, IF Len(kept) < max_layers THEN Len(kept) ELSE max_layers)

recommend_clothing(comfort_score, temperature) ==
    Return(List(limited(assembled(comfort_score, temperature))))

(***************************************************************************)
(* SpecPipeline: a snapshot as construction leaves it is scored, its       *)
(* stored score is set, and clothing is recommended for its score and      *)
(* temperature, in any order and any number of times.                      *)
(***************************************************************************)
\* The short forecasts of the snapshots: the twelve texts of the table as the
\* service capitalises them, and texts that are not in the table.
ForecastTexts ==
    {"Sunny", "Mostly Sunny", "Partly Cloudy", "Mostly Cloudy", "Cloudy", "Fog",
     "Rain", "Sleet", "Snow", "Thunderstorms", "Heavy Rain", "Heavy Snow",
     "Chance Rain Showers", "Sunny "}

\* What get_current_conditions can return: a temperature and a short forecast
\* as the period gave them (None when it gave none) and the parsed wind.
Conditions ==
    [temp_f : {Num(F(COMFORT_TEMPERATURE) + k * SCALE) : k \in (-MaxDegrees)..MaxDegrees}
                 \cup {None},
     wind_mph : {Num(k * F(5)) : k \in 0..MaxWindSteps},
     short_forecast : {Str(text) : text \in ForecastTexts} \cup {None},
     period_start : {_parse_time(Str("2025-10-27T12:00:00-04:00")).value},
     source : {Str("weather.gov")},
     location : {Str("Boston, MA")}]

\* The Weather objects construction can leave: ready ones, and the empty one.
Snapshots ==
    {Weather(Return(Dict(c))).value : c \in Conditions}
        \cup {Weather(Raise("RuntimeError")).value}

StoredScores == {Num(0), Num(F(5))}

call_score_weather ==
    /\ op' = "score_weather"
    /\ args' = None
    /\ ret' = score_weather(weather)
    /\ scored' = IF scored = None
                 THEN [result |-> ret', stored |-> weather.score, repeated |-> FALSE]
                 ELSE [scored EXCEPT !.repeated = TRUE]
    /\ UNCHANGED <<upstream, weather, temp_f, temp_score, getVars>>

call_set_score ==
    /\ \E score \in StoredScores :
        /\ weather.score # score
        /\ weather' = set_score(weather, score)
        /\ args' = [score |-> score]
    /\ op' = "set_score"
    /\ ret' = Return(None)
    /\ UNCHANGED <<upstream, scored, temp_f, temp_score, getVars>>

\* app/api/main.py line 158: clothing for the score just computed and the
\* temperature of the same snapshot.
call_recommend_clothing_for_snapshot ==
    /\ op = "score_weather"
    /\ ret.kind = "return"
    /\ get_temperature(weather).kind = "return"
    /\ args' = [comfort_score |-> ret.value, temperature |-> get_temperature(weather).value]
    /\ ret' = recommend_clothing(args'.comfort_score, args'.temperature)
    /\ op' = "recommend_clothing"
    /\ UNCHANGED <<upstream, weather, scored, temp_f, temp_score, getVars>>

InitPipeline ==
    /\ GetIdle
    /\ upstream = None
    /\ op = "none"
    /\ weather \in Snapshots
    /\ ret = Running
    /\ temp_f = None
    /\ temp_score = None
    /\ args = None
    /\ scored = None

NextPipeline ==
    \/ call_score_weather
    \/ call_set_score
    \/ call_recommend_clothing_for_snapshot

SpecPipeline == InitPipeline /\ [][NextPipeline]_vars

(***************************************************************************)
(* Claims about the comfort score, checked under SpecPipeline.             *)
(***************************************************************************)
\* C11: the temperature term of the comfort score, score_temperature(temp)
\* times wind_multiplier(wind), lies within [-10, 10] for every temperature
\* and wind: the temperature score is -10 once the temperature is 40 degrees
\* or more from the reference.
C11_TemperatureTermWithinTen ==
    (op = "score_weather" /\ temperature_score(weather).kind = "return") =>
        LET term == temperature_score(weather).value.n
            temp == get_temperature(weather).value
            d == temp.n - 70 * SCALE
        IN /\ -10 * SCALE <= term /\ term <= 10 * SCALE
           /\ (d >= 40 * SCALE \/ d <= -40 * SCALE)
                 => score_temperature(temp) = Return(Num(-10 * SCALE))

\* The forecast term the table gives a short-forecast text.
ClaimedForecastTerm(text) ==
    CASE text = "sunny" -> 10
      [] text = "heavy snow" -> -10
      [] text \in DOMAIN FORECAST_SCORES -> FORECAST_SCORES[text]
      [] OTHER -> 0

\* C13: for every snapshot score_weather returns
\* score_temperature(temp) * wind_multiplier(wind) + f, with f the table score
\* of the short-forecast text when that text is a key of the table and 0
\* otherwise; at the reference temperature, wind <= 5 mph and "sunny" it is 20.
C13_ScoreIsTemperatureTermPlusForecastTerm ==
    op = "score_weather" =>
        /\ ret.kind = "return"
        /\ ret.kind = "return" =>
            LET data == weather.weather_data.d
                temp == Get(data, "temp_f", Num(0))
                wind == Get(data, "wind_mph", Num(0))
                text == lower(Get(data, "short_forecast", Str("No forecast available")).s)
                d == temp.n - 70 * SCALE
                points == 10 * SCALE - (IF d < 0 THEN -d ELSE d) \div 2
                term == (points * wind_multiplier(wind).value.n) \div SCALE
            IN /\ ret.value = Num(term + ClaimedForecastTerm(text) * SCALE)
               /\ (d = 0 /\ wind.n <= 5 * SCALE /\ text = "sunny")
                     => ret.value = Num(20 * SCALE)

\* C14: a later call of score_weather on the same snapshot, whatever ran in
\* between, gives what the first call gave, and no call changes the snapshot's
\* data or its stored score.
C14_ScoreWeatherIsRepeatable ==
    [][op' = "score_weather" =>
          /\ weather' = weather
          /\ scored # None => ret' = scored.result]_vars

\* score_weather returned the same score after the stored score was changed.
C14_Witness ==
    /\ op = "score_weather"
    /\ scored # None
    /\ scored.repeated
    /\ scored.stored # weather.score
    /\ ret.kind = "return"
    /\ ret = scored.result

(***************************************************************************)
(* SpecParse: parse_wind_speed is applied to a wind text.                  *)
(***************************************************************************)
\* Number literals with their values.
NumberTexts ==
    {[text |-> ToString(n), value |-> F(n)] : n \in 0..MaxSpeed}
        \cup {[text |-> "7.5", value |-> 15 * Half], [text |-> "07", value |-> F(7)]}

WindUnits == {"", " mph", " MPH", "  Mph "}

\* The wind texts drawn, each with the shape it was written in.
WindTexts ==
    {[shape |-> "calm", text |-> t] : t \in {"calm", "Calm", " CALM "}}
        \cup {[shape |-> "empty", text |-> t] : t \in {"", "   "}}
        \cup {[shape |-> "single", a |-> a.value,
               text |-> lead \o a.text \o unit] :
                 a \in NumberTexts \cup {[text |-> "-5", value |-> F(-5)]},
                 lead \in {"", " "}, unit \in WindUnits}
        \cup {[shape |-> "range", a |-> a.value, b |-> b.value,
               text |-> a.text \o sep \o b.text \o unit] :
                 a \in NumberTexts, b \in NumberTexts,
                 sep \in {"-", " - "}, unit \in WindUnits}
        \cup {[shape |-> "other", text |-> t] :
                 t \in {"10 to 15 mph", "5mph", "N/A", "10-15-20 mph", "5-", "-5-10",
                        "10--15", "gusty", " mph", "5 mph gusts", "5 knots"}}

call_parse_wind_speed ==
    /\ op = "none"
    /\ op' = "parse_wind_speed"
    /\ ret' = Return(parse_wind_speed(args.wind_speed_str))
    /\ UNCHANGED <<upstream, weather, args, scored, temp_f, temp_score, getVars>>

InitParse ==
    /\ GetIdle
    /\ FetchIdle
    /\ temp_f = None
    /\ temp_score = None
    /\ args \in {[wind_speed_str |-> Str(w.text)] : w \in WindTexts}
    /\ scored = None

NextParse == call_parse_wind_speed

SpecParse == InitParse /\ [][NextParse]_vars

\* The wind speed claimed for a wind text of a given shape.
ClaimedWindSpeed(w) ==
    CASE w.shape \in {"calm", "empty", "other"} -> 0
      [] w.shape = "single" -> w.a
      [] w.shape = "range" -> (w.a + w.b) \div 2

\* C15: parse_wind_speed never raises; lower-cased and trimmed, "calm" and
\* empty input give 0.0, a trailing " mph" is dropped, a two-part
\* hyphen-separated range gives the mean of its endpoints, a single number
\* its value, and any other text 0.0, "10 to 15 mph" among them.
C15_ParseWindSpeed ==
    op = "parse_wind_speed" =>
        LET text == args.wind_speed_str.s IN
        /\ ret.kind = "return"
        /\ ret.value.t = "num"
        /\ \A w \in WindTexts : w.text = text => ret.value.n = ClaimedWindSpeed(w)
        /\ text \in {"10-15", "10-15 mph"} => ret.value.n = 25 * (SCALE \div 2)
        /\ text = "7 mph" => ret.value.n = 7 * SCALE
        /\ text = "10 to 15 mph" => ret.value.n = 0

\* "10-15 mph" gave 12.5.
C15_Witness ==
    /\ op = "parse_wind_speed"
    /\ args.wind_speed_str = Str("10-15 mph")
    /\ ret = Return(Num(25 * (SCALE \div 2)))

(***************************************************************************)
(* SpecRecommend: recommend_clothing is applied to a comfort score within  *)
(* MaxHalfPoints half points of zero and a temperature within MaxDegrees   *)
(* degrees of the comfort temperature.                                     *)
(***************************************************************************)
RecommendInputs ==
    [comfort_score : {Num(k * Half) : k \in (-MaxHalfPoints)..MaxHalfPoints},
     temperature : {Num(F(COMFORT_TEMPERATURE) + k * SCALE) :
                       k \in (-MaxDegrees)..MaxDegrees}]

call_recommend_clothing ==
    /\ op = "none"
    /\ op' = "recommend_clothing"
    /\ ret' = recommend_clothing(args.comfort_score, args.temperature)
    /\ UNCHANGED <<upstream, weather, args, scored, temp_f, temp_score, getVars>>

InitRecommend ==
    /\ GetIdle
    /\ FetchIdle
    /\ temp_f = None
    /\ temp_score = None
    /\ args \in RecommendInputs
    /\ scored = None

NextRecommend == call_recommend_clothing

SpecRecommend == InitRecommend /\ [][NextRecommend]_vars

(***************************************************************************)
(* Claims about the recommender, checked under SpecRecommend.              *)
(***************************************************************************)
\* The names of the items of a list, in order.
Names(items) == [i \in 1..Len(items) |-> items[i].name]

IsAccessory(item) == item.category \in {"accessory", "bottom"}

\* The warmth tier claimed for a comfort score.
ClaimedTier(s) ==
    IF s >= 8 * SCALE THEN 1
    ELSE IF s >= 5 * SCALE THEN 2
    ELSE IF s >= 0 THEN 3
    ELSE IF s >= -5 * SCALE THEN 4
    ELSE 5

\* The layers claimed for a comfort score.
ClaimedLayers(s) ==
    <<"tee">>
        \o (IF ClaimedTier(s) >= 3 THEN <<"sweater">> ELSE <<>>)
        \o (IF ClaimedTier(s) >= 4 THEN <<"down_coat">> ELSE <<>>)
        \o (IF s < 0 THEN <<"rain_shell">> ELSE <<>>)

\* The accessories claimed for a temperature.
ClaimedAccessories(t) ==
    (IF t < 32 * SCALE THEN <<"hat", "gloves">> ELSE <<>>)
        \o (IF t < 20 * SCALE THEN <<"scarf">> ELSE <<>>)
        \o (IF t < 15 * SCALE THEN <<"thermal_leggings">> ELSE <<>>)

\* C16: the tier is the first threshold the score meets (>= 8: 1, >= 5: 2,
\* >= 0: 3, >= -5: 4, else 5); the layers recommended are the first base item,
\* the first mid item iff tier >= 3, the heaviest outer item iff tier >= 4 and
\* the first rainproof shell iff the score is negative, in that order; for a
\* score >= 8 and a temperature >= 32 the result is one base item alone.
C16_LayersFollowTheTier ==
    op = "recommend_clothing" =>
        LET s == args.comfort_score.n
            t == args.temperature.n
            worn == SelectSeq(ret.value.l, LAMBDA item : ~IsAccessory(item))
        IN /\ ret.kind = "return"
           /\ Names(worn) = ClaimedLayers(s)
           /\ SubSeq(ret.value.l, 1, Len(worn)) = worn
           /\ worn[1] = CLOTHING_SCORES[1]
           /\ (s >= 8 * SCALE /\ t >= 32 * SCALE) => Names(ret.value.l) = <<"tee">>

\* Score 9 at 75 F gave the tee alone.
C16_Witness ==
    /\ op = "recommend_clothing"
    /\ args = [comfort_score |-> Num(9 * SCALE), temperature |-> Num(75 * SCALE)]
    /\ Names(ret.value.l) = <<"tee">>

\* C17: whatever the tier, the list assembled before the cut holds hat and
\* gloves iff the temperature is below 32, scarf iff below 20 and
\* thermal_leggings iff below 15, in that order after the layers, and no item
\* twice.
C17_AccessoriesAreCumulative ==
    op = "recommend_clothing" =>
        LET s == args.comfort_score.n
            t == args.temperature.n
            list == assembled(args.comfort_score, args.temperature)
        IN /\ Names(list) = ClaimedLayers(s) \o ClaimedAccessories(t)
           /\ \A i, j \in 1..Len(list) : i # j => list[i] # list[j]
           /\ \A i \in 1..Len(ret.value.l) : ret.value.l[i] = list[i]

\* Score 9 at 10 F: the tee and all four accessories.
C17_Witness ==
    /\ op = "recommend_clothing"
    /\ args = [comfort_score |-> Num(9 * SCALE), temperature |-> Num(10 * SCALE)]
    /\ Names(ret.value.l) = <<"tee", "hat", "gloves", "scarf", "thermal_leggings">>

\* C18: recommend_clothing returns, without error, the first max_layers (5)
\* items of the assembled list, none of them None; for score -7 at 10 F the
\* eight assembled items are cut to tee, sweater, down_coat, rain_shell, hat.
C18_ResultIsFirstFiveAssembled ==
    op = "recommend_clothing" =>
        LET list == assembled(args.comfort_score, args.temperature)
            cut == IF Len(list) < 5 THEN Len(list) ELSE 5
        IN /\ ret.kind = "return"
           /\ Len(ret.value.l) <= 5
           /\ ret.value.l = SubSeq(list, 1, cut)
           /\ \A i \in 1..Len(ret.value.l) : ret.value.l[i] # None
           /\ args = [comfort_score |-> Num(-7 * SCALE), temperature |-> Num(10 * SCALE)]
                 => /\ Names(list) = <<"tee", "sweater", "down_coat", "rain_shell", "hat",
                                       "gloves", "scarf", "thermal_leggings">>
                    /\ Names(ret.value.l)
                          = <<"tee", "sweater", "down_coat", "rain_shell", "hat">>

\* Score -7 at 10 F gave five items, the last of them the hat.
C18_Witness ==
    /\ op = "recommend_clothing"
    /\ args = [comfort_score |-> Num(-7 * SCALE), temperature |-> Num(10 * SCALE)]
    /\ Len(ret.value.l) = 5
    /\ ret.value.l[5].name = "hat"

(***************************************************************************)
(* The entry points: the API endpoints (app/api/main.py, app/api/schemas.py)*)
(* and the command-line runner (app/run.py).  An entry point is given its  *)
(* arguments and the answers of the upstream service; it yields its result *)
(* and the trace of the GETs it issued and the pipeline calls it made.     *)
(***************************************************************************)
\* The events of the trace.
GETPoints(latitude, longitude) ==
    [ev |-> "GET", url |-> "points", latitude |-> latitude, longitude |-> longitude]
GETUrl(url) == [ev |-> "GET", url |-> url]
Call(name, result) == [ev |-> "call", name |-> name, result |-> result]

\* The GETs one call of get_current_conditions(latitude, longitude) issues:
\* /points, then the hourly forecast when its URL was resolved, then /points
\* again for the location when a current period was read.
gets_of_get_current_conditions(latitude, longitude, up) ==
    LET hourly_forecast_url == get_hourly_forecast(up.point)
        period_read ==
            /\ up.forecast.kind = "return"
            /\ Truthy(periods_of(up.forecast.value))
            /\ current_period_of(periods_of(up.forecast.value)).t = "dict"
            /\ _parse_time(Get(current_period_of(periods_of(up.forecast.value)).d,
                               "startTime", None)).kind = "return"
    IN <<GETPoints(latitude, longitude)>>
        \o (IF hourly_forecast_url.kind = "return"
            THEN <<GETUrl(hourly_forecast_url.value.s)>>
                    \o (IF period_read THEN <<GETPoints(latitude, longitude)>> ELSE <<>>)
            ELSE <<>>)

\* An HTTP response of the API: the status and, for 200, the body.
Response(status, content) == [status |-> status, content |-> content]

\* Query(..., ge=lo, le=hi) and Field(..., ge=lo, le=hi): the framework answers
\* 422 for a value outside the bounds.
within(v, lo, hi) == F(lo) <= v.n /\ v.n <= F(hi)

\* WeatherResponse(...): every field must have its declared type.
WeatherResponse(temp, wind, short_forecast, location, period_start) ==
    IF /\ temp.t = "num"
       /\ wind.t = "num"
       /\ short_forecast.t = "str"
       /\ location.t = "str"
       /\ period_start.t = "str"
    THEN Return(Dict([temp_f |-> temp, wind_mph |-> wind,
                      short_forecast |-> short_forecast, location |-> location,
                      period_start |-> period_start, source |-> Str("weather.gov")]))
    ELSE Raise("ValidationError")

\* GET /weather/current
get_current_weather(latitude, longitude, up) ==
    IF ~(within(latitude, -90, 90) /\ within(longitude, -180, 180))
    THEN [result |-> Response(422, None), trace |-> <<>>]
    ELSE Only({
        LET built == IF weather_data.kind = "raise" THEN weather_data
                     ELSE WeatherResponse(weather_data.value.d.temp_f,
                                          weather_data.value.d.wind_mph,
                                          weather_data.value.d.short_forecast,
                                          weather_data.value.d.location,
                                          weather_data.value.d.period_start)
        IN IF built.kind = "raise"
           THEN [result |-> Response(500, None), trace |-> trace]
           ELSE [result |-> Response(200, built.value), trace |-> trace] :
        weather_data \in {get_current_conditions(up)},
        trace \in {gets_of_get_current_conditions(latitude, longitude, up)}})

\* Lines 161-171 of get_recommendations: an item as the response shows it.
clothing_item(item) ==
    LET flag(key) == IF key \in DOMAIN item THEN Bool(item[key]) ELSE None
    IN [name |-> item.name, score |-> item.score, category |-> item.category,
        rainproof |-> flag("rainproof"), windproof |-> flag("windproof"),
        insulated |-> flag("insulated")]

\* The framework's validation of the arguments of /recommendations: a query
\* value that is given, and every field of a body that is given, must lie
\* within its declared bounds.
recommendation_arguments_valid(latitude, longitude, comfort_temperature, request) ==
    /\ latitude # None => within(latitude, -90, 90)
    /\ longitude # None => within(longitude, -180, 180)
    /\ comfort_temperature # None => within(comfort_temperature, 50, 90)
    /\ request # None =>
          /\ within(request.latitude, -90, 90)
          /\ within(request.longitude, -180, 180)
          /\ abs(request.latitude.n) <= F(180) /\ abs(request.longitude.n) <= F(180)
          /\ request.comfort_temperature # None
                => within(request.comfort_temperature, 50, 90)

\* Lines 144-193 of get_recommendations, for the coordinate chosen.
\* The response of lines 161-193, once the snapshot was scored.
recommendations_of(lat, lon, snapshot, comfort_score, scored_trace) ==
    Only({
        LET recommended == scored_trace \o <<Call("recommend_clothing", clothing_recs)>>
            clothing_items ==
                [i \in 1..Len(clothing_recs.value.l) |->
                    clothing_item(clothing_recs.value.l[i])]
            shown == IF short_forecast.kind = "raise" THEN short_forecast
                     ELSE WeatherResponse(get_temperature(snapshot).value,
                                          get_wind_speed(snapshot).value,
                                          short_forecast.value,
                                          Get(snapshot.weather_data.d, "location",
                                              Str("Unknown")),
                                          get_period_start(snapshot).value)
        IN
        IF shown.kind = "raise"
        THEN [result |-> Response(500, None), trace |-> recommended]
        ELSE [result |-> Response(200, [weather |-> shown.value,
                                        comfort_score |-> comfort_score.value,
                                        clothing_recommendations |-> clothing_items,
                                        location |-> [latitude |-> lat, longitude |-> lon]]),
              trace |-> recommended] :
        clothing_recs \in
            {recommend_clothing(comfort_score.value, get_temperature(snapshot).value)},
        short_forecast \in {get_short_forecast(snapshot)}})

\* Lines 144-193 of get_recommendations, for the coordinate chosen.
recommendations_for(lat, lon, comfort_temp, up) ==
    Only({
        IF made.kind = "raise" THEN [result |-> Response(500, None), trace |-> gets]
        ELSE Only({
            LET checked == gets \o <<Call("is_ready", ready)>> IN
            IF ~ready.value.b THEN [result |-> Response(404, None), trace |-> checked]
            ELSE Only({
                LET scored_trace == checked \o <<Call("score_weather", comfort_score)>> IN
                IF comfort_score.kind = "raise"
                THEN [result |-> Response(500, None), trace |-> scored_trace]
                ELSE recommendations_of(lat, lon, made.value, comfort_score, scored_trace) :
                comfort_score \in {score_weather(made.value)}}) :
            ready \in {is_ready(made.value)}}) :
        made \in {Weather(get_current_conditions(up))},
        gets \in {gets_of_get_current_conditions(lat, lon, up)}})

\* GET or POST /recommendations
get_recommendations(latitude, longitude, comfort_temperature, request, up) ==
    IF ~recommendation_arguments_valid(latitude, longitude, comfort_temperature, request)
    THEN [result |-> Response(422, None), trace |-> <<>>]
    ELSE IF request # None
    THEN recommendations_for(request.latitude, request.longitude,
                             request.comfort_temperature, up)
    ELSE IF latitude = None \/ longitude = None
    THEN [result |-> Response(400, None), trace |-> <<>>]
    ELSE recommendations_for(latitude, longitude, comfort_temperature, up)

\* The default coordinate of the runner, 40.952583, -75.165222, to the 1/2000
\* of a degree.
DefaultCoordinate ==
    <<Num(40 * SCALE + 952583 \div 500), Num(-(75 * SCALE + 165222 \div 500))>>

\* _parse_cli_coordinates(arguments): arguments[0] is the script name.
_parse_cli_coordinates(arguments) ==
    IF Len(arguments) >= 3
    THEN LET latitude == float_of_text(arguments[2])
             longitude == float_of_text(arguments[3])
         IN IF latitude.kind = "raise" \/ longitude.kind = "raise"
            THEN DefaultCoordinate
            ELSE <<Num(latitude.value), Num(longitude.value)>>
    ELSE DefaultCoordinate

\* The GETs one call of fetch_short_forecast_once(lat, lon) issues.
gets_of_fetch_short_forecast_once(lat, lon, up) ==
    LET hourly_url == get_hourly_forecast(up.point) IN
    <<GETPoints(lat, lon)>>
        \o (IF /\ hourly_url.kind = "return"
               /\ Truthy(hourly_url.value)
               /\ Contains(hourly_url.value.s, "/forecast/hourly")
            THEN <<GETUrl(hourly_url.value.s)>> ELSE <<>>)

\* Weather.__str__: the accessors it formats, in the order it calls them.
\* None when the text was built; the text itself is not kept.
str_of_Weather(self) ==
    LET temp == get_temperature(self)
        short_forecast == get_short_forecast(self)
        wind == get_wind_speed(self)
    IN IF temp.kind = "raise" THEN temp
       ELSE IF short_forecast.kind = "raise" THEN short_forecast
       ELSE IF wind.kind = "raise" THEN wind
       ELSE Return(None)

\* Lines 48-52 of main(): the snapshot is made, printed and scored.
main_with(latitude, longitude, fetched, first, second) ==
    Only({
        IF made.kind = "raise" THEN [result |-> made, trace |-> constructed]
        ELSE Only({
            IF printed.kind = "raise" THEN [result |-> printed, trace |-> constructed]
            ELSE [result |-> IF score.kind = "raise" THEN score ELSE Return(None),
                  trace |-> constructed \o <<Call("score_weather", score)>>] :
            printed \in {str_of_Weather(made.value)},
            score \in {score_weather(made.value)}}) :
        made \in {Weather(get_current_conditions(second))},
        constructed \in
            {fetched \o gets_of_fetch_short_forecast_once(latitude, longitude, first)
                \o gets_of_get_current_conditions(latitude, longitude, second)}})

\* main() of app/run.py: `first` answers the GETs of get_current_conditions
\* and fetch_short_forecast_once, `second` those of the Weather constructor.
main(arguments, first, second) ==
    Only({
        IF current_conditions.kind = "raise"
        THEN [result |-> current_conditions,
              trace |-> gets_of_get_current_conditions(coordinates[1], coordinates[2], first)]
        ELSE main_with(coordinates[1], coordinates[2],
                       gets_of_get_current_conditions(coordinates[1], coordinates[2], first),
                       first, second) :
        coordinates \in {_parse_cli_coordinates(arguments)},
        current_conditions \in {get_current_conditions(first)}})

(***************************************************************************)
(* SpecApi: one entry point is called with some arguments, on some answers *)
(* of the upstream service.  log is the trace the call left.               *)
(***************************************************************************)
Latitudes == {Num(F(k)) : k \in {-91, -90, 41, 90, 91}}
Longitudes == {Num(F(k)) : k \in {-181, -180, -74, 180, 181}}
ComfortTemperatures == {Num(F(k)) : k \in {49, 50, 60, 70, 90, 91}}

\* The command lines of the runner.
Arguments ==
    {<<"run.py">>, <<"run.py", "41">>, <<"run.py", "41", "-74">>,
     <<"run.py", "91", "-74">>, <<"run.py", "41", "181">>, <<"run.py", "north", "-74">>}

\* The answers of the upstream service: /points with the hourly URL, or an
\* HTTP error; a forecast of one period, of one period without temperature,
\* or of none; /points with the location.
ScenarioPeriods ==
    {[temperature |-> Num(F(70)), windSpeed |-> Str("5 mph"),
      shortForecast |-> Str("Sunny"), startTime |-> Str("2025-10-27T12:00:00-04:00")],
     [temperature |-> Num(F(40)), windSpeed |-> Str("10-15 mph"),
      shortForecast |-> Str("Rain"), startTime |-> Str("2025-10-27T12:00:00-04:00")],
     [windSpeed |-> Str("5 mph"),
      shortForecast |-> Str("Sunny"), startTime |-> Str("2025-10-27T12:00:00-04:00")]}

Scenarios ==
    {Upstream(p, f, l) :
        p \in {Return(Dict([properties |-> Dict([forecastHourly |-> Str(HourlyUrl)])])),
               Raise("HTTPError")},
        f \in {Return(Dict([properties |-> Dict([periods |-> List(<<Dict(q)>>)])])) :
                  q \in ScenarioPeriods}
                 \cup {Return(Dict([properties |-> Dict([periods |-> List(<<>>)])]))},
        l \in {Return(Dict([properties |->
                  Dict([relativeLocation |->
                      Dict([properties |->
                          Dict([city |-> Str("Boston"), state |-> Str("MA")])])])]))}}

\* The variables no entry point touches.
untouched == <<pc, attempt, response, outcome, temp_f, temp_score, scored>>

\* The call ran: its result and its trace are kept.
Ran(name, arguments, answers, r) ==
    \E ran \in {r} :
        /\ op' = name
        /\ args' = arguments
        /\ upstream' = answers
        /\ ret' = ran.result
        /\ log' = ran.trace

call_get_current_weather ==
    /\ op = "none"
    /\ \E latitude \in Latitudes, longitude \in Longitudes, up \in Scenarios :
        Ran("get_current_weather", [latitude |-> latitude, longitude |-> longitude], up,
            get_current_weather(latitude, longitude, up))
    /\ UNCHANGED <<weather, untouched>>

\* /recommendations with query parameters and no body.
call_get_recommendations ==
    /\ op = "none"
    /\ \E latitude \in Latitudes \cup {None}, longitude \in Longitudes \cup {None},
          comfort_temperature \in ComfortTemperatures \cup {None}, up \in Scenarios :
        Ran("get_recommendations",
            [latitude |-> latitude, longitude |-> longitude,
             comfort_temperature |-> comfort_temperature, request |-> None], up,
            get_recommendations(latitude, longitude, comfort_temperature, None, up))
    /\ UNCHANGED <<weather, untouched>>

\* /recommendations with a JSON body and no query parameters.
call_post_recommendations ==
    /\ op = "none"
    /\ \E request \in [latitude : Latitudes, longitude : Longitudes,
                       comfort_temperature : ComfortTemperatures \cup {None}],
          up \in Scenarios :
        Ran("get_recommendations",
            [latitude |-> None, longitude |-> None, comfort_temperature |-> None,
             request |-> request], up,
            get_recommendations(None, None, None, request, up))
    /\ UNCHANGED <<weather, untouched>>

call_main ==
    /\ op = "none"
    /\ \E arguments \in Arguments, first \in Scenarios, second \in Scenarios :
        Ran("main", [arguments |-> arguments], [first |-> first, second |-> second],
            main(arguments, first, second))
    /\ UNCHANGED <<weather, untouched>>

\* Weather(latitude, longitude)
call_Weather ==
    /\ op = "none"
    /\ \E latitude \in Latitudes, longitude \in Longitudes, up \in Scenarios :
        \E made \in {Weather(get_current_conditions(up))} :
        /\ Ran("Weather", [latitude |-> latitude, longitude |-> longitude], up,
               [result |-> IF made.kind = "return" THEN Return(None) ELSE made,
                trace |-> gets_of_get_current_conditions(latitude, longitude, up)])
        /\ weather' = IF made.kind = "return" THEN made.value ELSE None
    /\ UNCHANGED untouched

\* get_current_conditions(latitude, longitude)
call_get_current_conditions_at ==
    /\ op = "none"
    /\ \E latitude \in Latitudes, longitude \in Longitudes, up \in Scenarios :
        Ran("get_current_conditions", [latitude |-> latitude, longitude |-> longitude], up,
            [result |-> get_current_conditions(up),
             trace |-> gets_of_get_current_conditions(latitude, longitude, up)])
    /\ UNCHANGED <<weather, untouched>>

InitApi == GetIdle /\ FetchIdle /\ ScoreIdle

NextApi ==
    \/ call_get_current_weather
    \/ call_get_recommendations
    \/ call_post_recommendations
    \/ call_main
    \/ call_Weather
    \/ call_get_current_conditions_at

SpecApi == InitApi /\ [][NextApi]_vars

(***************************************************************************)
(* Claims about the entry points, checked under SpecApi.                   *)
(***************************************************************************)
\* The coordinate the entry point that ran was given.
GivenCoordinate ==
    CASE op = "main" -> _parse_cli_coordinates(args.arguments)
      [] op = "get_recommendations" /\ args.request # None ->
            <<args.request.latitude, args.request.longitude>>
      [] OTHER -> <<args.latitude, args.longitude>>

OutOfRange(coordinate) ==
    \/ /\ coordinate[1] # None
       /\ (coordinate[1].n < -90 * SCALE \/ coordinate[1].n > 90 * SCALE)
    \/ /\ coordinate[2] # None
       /\ (coordinate[2].n < -180 * SCALE \/ coordinate[2].n > 180 * SCALE)

\* The entry point refused its arguments: a client error of the API, an
\* exception elsewhere.
Rejected ==
    IF op \in {"get_current_weather", "get_recommendations"}
    THEN ret.status \in {400, 422}
    ELSE ret.kind = "raise"

\* C19: every entry point that accepts a coordinate rejects a latitude outside
\* [-90, 90] or a longitude outside [-180, 180], and issues no upstream GET
\* for it.
C19_OutOfRangeCoordinateIsRejected ==
    (op # "none" /\ OutOfRange(GivenCoordinate)) =>
        /\ Rejected
        /\ \A i \in 1..Len(log) : log[i].ev # "GET"

\* C20: the comfort score of a recommendation peaks at the comfort temperature
\* the request gives, and at 70 when it gives none:
\* (10 - 0.5 * |temp - T|) * wind_multiplier(wind) + forecast term.
C20_ScoreUsesRequestedComfortTemperature ==
    (op = "get_recommendations" /\ ret.status = 200) =>
        LET given == IF args.request # None THEN args.request.comfort_temperature
                     ELSE args.comfort_temperature
            reference == IF given = None THEN 70 * SCALE ELSE given.n
            shown == ret.content.weather.d
            d == shown.temp_f.n - reference
            points == 10 * SCALE - (IF d < 0 THEN -d ELSE d) \div 2
            term == (points * wind_multiplier(shown.wind_mph).value.n) \div SCALE
        IN ret.content.comfort_score
              = Num(term + ClaimedForecastTerm(shown.short_forecast.s) * SCALE)

\* A call of the pipeline in the trace: the snapshot is scored or dressed.
IsPipelineCall(event) ==
    event.ev = "call" /\ event.name \in {"score_weather", "recommend_clothing"}

\* is_ready() answered `b` somewhere before position i of the trace.
ObservedReady(i, b) ==
    \E j \in 1..(i - 1) : log[j] = Call("is_ready", Return(Bool(b)))

\* C21: at every call site of the pipeline, score_weather and
\* recommend_clothing are invoked on a snapshot only after is_ready() was
\* observed true for it; for a snapshot that is not ready, /recommendations
\* answers 404 and produces no score and no clothing list.
C21_ScoringOnlyAfterIsReady ==
    /\ \A i \in 1..Len(log) : IsPipelineCall(log[i]) => ObservedReady(i, TRUE)
    /\ (op = "get_recommendations" /\ ObservedReady(Len(log) + 1, FALSE)) =>
          /\ ret = Response(404, None)
          /\ \A i \in 1..Len(log) : ~IsPipelineCall(log[i])

(***************************************************************************)
(* More claims about recommend_clothing, checked under SpecRecommend.      *)
(***************************************************************************)
\* The items recommend_clothing can append with the static catalog, in the
\* order it appends them.
AssemblyOrder ==
    <<"tee", "sweater", "down_coat", "rain_shell", "hat", "gloves", "scarf",
      "thermal_leggings">>

\* The position of a name in AssemblyOrder, 0 for a name that is not there.
PlaceOf(name) ==
    IF \E p \in 1..Len(AssemblyOrder) : AssemblyOrder[p] = name
    THEN CHOOSE p \in 1..Len(AssemblyOrder) : AssemblyOrder[p] = name
    ELSE 0

\* C22: every list recommend_clothing returns with the static catalog is
\* non-empty, starts with tee, and is an order-preserving sub-sequence of
\* AssemblyOrder: at most one item of each of the categories base, mid, outer
\* and shell, every layer before every accessory, and rain_shell only
\* together with down_coat and sweater.
C22_ResultIsSubsequenceOfAssemblyOrder ==
    op = "recommend_clothing" =>
        LET list == ret.value.l
            has(name) == \E i \in 1..Len(list) : list[i].name = name
        IN /\ ret.kind = "return"
           /\ Len(list) > 0
           /\ list[1].name = "tee"
           /\ \A i \in 1..Len(list) : PlaceOf(list[i].name) > 0
           /\ \A i, j \in 1..Len(list) :
                 i < j => PlaceOf(list[i].name) < PlaceOf(list[j].name)
           /\ \A category \in {"base", "mid", "outer", "shell"} :
                 Cardinality({i \in 1..Len(list) : list[i].category = category}) <= 1
           /\ \A i, j \in 1..Len(list) :
                 (IsAccessory(list[i]) /\ ~IsAccessory(list[j])) => j < i
           /\ has("rain_shell") => (has("down_coat") /\ has("sweater"))

\* Score -3 at 25 F gave the four layers and the hat: the shell came with the
\* coat and the sweater, the accessory after the layers.
C22_Witness ==
    /\ op = "recommend_clothing"
    /\ args = [comfort_score |-> Num(-3 * SCALE), temperature |-> Num(25 * SCALE)]
    /\ Names(ret.value.l) = <<"tee", "sweater", "down_coat", "rain_shell", "hat">>

(***************************************************************************)
(* More claims about the pipeline, checked under SpecPipeline.             *)
(***************************************************************************)
\* C23: end to end, where recommend_clothing is given score_weather of the
\* snapshot and the temperature of the same snapshot, the score is negative
\* for every temperature below 15 F, whatever the wind and the forecast text,
\* so the result there is exactly tee, sweater, down_coat, rain_shell, hat;
\* thermal_leggings is in no end-to-end recommendation.
C23_ThermalLeggingsNeverRecommended ==
    op = "recommend_clothing" =>
        /\ \A i \in 1..Len(ret.value.l) : ret.value.l[i].name # "thermal_leggings"
        /\ args.temperature.n < F(15) =>
              /\ args.comfort_score.n < 0
              /\ Names(ret.value.l)
                    = <<"tee", "sweater", "down_coat", "rain_shell", "hat">>

\* 14 F, sunny, wind at 25 mph: the score closest to zero below 15 F,
\* (10 - 28) * 0.6 + 10 = -0.8, and the five items.
C23_Witness ==
    /\ op = "recommend_clothing"
    /\ args = [comfort_score |-> Num(-(8 * SCALE) \div 10), temperature |-> Num(F(14))]
    /\ get_wind_speed(weather).value.n = F(25)
    /\ Len(ret.value.l) = 5
    /\ ret.value.l[5].name = "hat"

\* The snapshot with another wind speed, everything else as it is.
with_wind(snapshot, wind_mph) ==
    [snapshot EXCEPT !.weather_data = Dict([@.d EXCEPT !.wind_mph = wind_mph])]

\* C24: wind is a monotonic penalty on the comfort score: for a fixed
\* temperature and forecast text and two wind speeds w1 <= w2, score_weather
\* at w2 is not greater than score_weather at w1.
C24_WindNeverRaisesTheScore ==
    (/\ op = "score_weather"
     /\ ret.kind = "return"
     /\ "wind_mph" \in DOMAIN weather.weather_data.d) =>
        \A k \in 0..MaxWindSteps :
            k * F(5) >= get_wind_speed(weather).value.n =>
                score_weather(with_wind(weather, Num(k * F(5)))).value.n <= ret.value.n

(***************************************************************************)
(* One more claim about the retrying GET, checked under SpecGet.           *)
(***************************************************************************)
\* C25: in the retrying GET every backoff wait is followed by a further GET:
\* the call never sleeps after its third attempt before it raises the
\* transport error, so one call waits at most twice.
C25_EveryWaitIsFollowedByAGet ==
    /\ Len(Sleeps(log)) <= 2
    /\ (pc = "done" /\ Len(log) > 0) => log[Len(log)].ev = "GET"
====
